---- MODULE Spec2Model ----
\* State-machine model of fhir_upload_temperature.cpp: main() reads one
\* temperature (argv[1] or one stdin line), formats a FHIR Observation with
\* snprintf, and issues one blocking POST through libcurl.
EXTENDS Integers, Sequences, FiniteSets, TLC

\* ---------------------------------------------------------------------------
\* Bounds of the model and constants of the program
\* ---------------------------------------------------------------------------

\* A finite double is represented exactly as sign and magnitude in units of
\* 10^-Scale; the inputs drawn in Init are those that are exact in this unit.
Scale == 3

\* How many characters the over-long stdin line runs past the read buffer.
Overrun == 3

\* char input[64]                                   (line 48)
InputBufSize == 64

\* char json[2048]                                  (line 67)
JsonBufSize == 2048

\* char iso_time[32]                                (line 63)
IsoBufSize == 32

\* Characters of the snprintf format other than the three conversions
\* (lines 69-77): 393 + 29 + 33 + 80.
TemplateLen == 535

\* DBL_MAX_10_EXP of the double that atof returns: a decimal of 10^309 or more
\* overflows to HUGE_VAL (infinity).
MaxDecExp == 308

\* CURLE_OK, the only CURLcode main() treats as "a response arrived"
CURLE_OK == 0

\* Value of res (declared without initialiser, line 96) and of the exit code
\* before the statements that assign them
Unset == -1

FHIR_SERVER_URL == "https://hapi.fhir.org/baseR4/Observation"

PATIENT_ID == <<"4", "9", "4", "1", "0", "2", "7", "6">>

\* ---------------------------------------------------------------------------
\* Characters and small helpers
\* ---------------------------------------------------------------------------

Digits == <<"0", "1", "2", "3", "4", "5", "6", "7", "8", "9">>

IsDigit(c) == \E d \in 1..10 : Digits[d] = c

DigitVal(c) == (CHOOSE d \in 1..10 : Digits[d] = c) - 1

Min(a, b) == IF a < b THEN a ELSE b

RECURSIVE Pow10(_)
Pow10(k) == IF k <= 0 THEN 1 ELSE 10 * Pow10(k - 1)

RECURSIVE NumDigits(_)
NumDigits(m) == IF m < 10 THEN 1 ELSE 1 + NumDigits(m \div 10)

RECURSIVE IntDigits(_)
IntDigits(m) ==
    IF m < 10 THEN <<Digits[m + 1]>>
    ELSE Append(IntDigits(m \div 10), Digits[(m % 10) + 1])

Rep(c, k) == [i \in 1..k |-> c]

\* ---------------------------------------------------------------------------
\* double values
\* ---------------------------------------------------------------------------

NaN == [kind |-> "nan", neg |-> FALSE, mag |-> 0]

Inf(neg) == [kind |-> "inf", neg |-> neg, mag |-> 0]

Fin(neg, mag) == [kind |-> "fin", neg |-> neg, mag |-> mag]

\* Faulty variant: only NaN is rejected (isnan in place of isfinite).
IsFinite_NanOnly(v) == v.kind # "nan"

\* isfinite(temp_value)
IsFinite(v) == v.kind = "fin"

\* ---------------------------------------------------------------------------
\* atof(s) = strtod(s, NULL): skip white space, optional sign, then
\* "inf"/"nan" (any case) or a decimal with optional fraction and exponent;
\* the rest of the string is ignored; no digits at all converts to +0.0.
\* ---------------------------------------------------------------------------

WhiteSpace == {" ", "\t", "\n", "\r", "\f"}

Lower(c) ==
    CASE c = "I" -> "i" [] c = "N" -> "n" [] c = "F" -> "f"
      [] c = "A" -> "a" [] c = "E" -> "e" [] OTHER -> c

\* First position from i on that holds no white space (Len(s)+1 if none)
SkipWs(s, i) ==
    CHOOSE j \in i..(Len(s) + 1) :
        /\ j > Len(s) \/ s[j] \notin WhiteSpace
        /\ \A k \in i..(j - 1) : s[k] \in WhiteSpace

MatchCI(s, i, w) ==
    /\ i + Len(w) - 1 <= Len(s)
    /\ \A k \in 1..Len(w) : Lower(s[i + k - 1]) = w[k]

\* First position from i on that holds no digit (Len(s)+1 if none)
DigitsEnd(s, i) ==
    CHOOSE j \in i..(Len(s) + 1) :
        /\ j > Len(s) \/ ~IsDigit(s[j])
        /\ \A k \in i..(j - 1) : IsDigit(s[k])

\* The number written by the digits s[a..b], acc being the number read so far
RECURSIVE DigitsValue(_, _, _, _)
DigitsValue(s, a, b, acc) ==
    IF a > b THEN acc
    ELSE DigitsValue(s, a + 1, b, acc * 10 + DigitVal(s[a]))

\* Digits from position i on: where they end, the number read so far (started
\* from acc) and how many were read. Leading zeros of a number that starts
\* here (acc = 0) add nothing and are passed over first.
ScanDigits(s, i, acc, cnt) ==
    LET e == DigitsEnd(s, i)
        z == IF acc # 0 THEN i
             ELSE CHOOSE j \in i..e :
                     /\ j = e \/ s[j] # "0"
                     /\ \A k \in i..(j - 1) : s[k] = "0"
    IN [pos |-> e, val |-> DigitsValue(s, z, e - 1, acc), cnt |-> cnt + (e - i)]

\* The exponent part at position p, or 0 when there is none ("e" not followed
\* by digits is not part of the number).
ScanExp(s, p) ==
    IF p <= Len(s) /\ Lower(s[p]) = "e"
    THEN LET hasSign == p + 1 <= Len(s) /\ s[p + 1] \in {"+", "-"}
             q  == IF hasSign THEN p + 2 ELSE p + 1
             ds == ScanDigits(s, q, 0, 0)
         IN IF ds.cnt = 0 THEN 0
            ELSE IF hasSign /\ s[p + 1] = "-" THEN 0 - ds.val ELSE ds.val
    ELSE 0

\* Faulty variant: a string without digits is no number (NaN) instead of 0.
AtofParts_Strict(s) ==
    LET i0 == SkipWs(s, 1)
        hasSign == i0 <= Len(s) /\ s[i0] \in {"+", "-"}
        neg == hasSign /\ s[i0] = "-"
        i1  == IF hasSign THEN i0 + 1 ELSE i0
    IN IF MatchCI(s, i1, <<"i", "n", "f">>)
       THEN [kind |-> "inf", neg |-> neg, mant |-> 0, e10 |-> 0]
       ELSE LET ip == ScanDigits(s, i1, 0, 0)
                hasDot == ip.pos <= Len(s) /\ s[ip.pos] = "."
                fp == IF hasDot THEN ScanDigits(s, ip.pos + 1, ip.val, 0)
                      ELSE [pos |-> ip.pos, val |-> ip.val, cnt |-> 0]
            IN IF ip.cnt + fp.cnt = 0
               THEN [kind |-> "nan", neg |-> FALSE, mant |-> 0, e10 |-> 0]
               ELSE [kind |-> "fin", neg |-> neg, mant |-> fp.val,
                     e10 |-> ScanExp(s, fp.pos) - fp.cnt]

\* The pieces strtod reads: kind, sign, decimal mantissa and power of ten.
AtofParts(s) ==
    LET i0 == SkipWs(s, 1)
        hasSign == i0 <= Len(s) /\ s[i0] \in {"+", "-"}
        neg == hasSign /\ s[i0] = "-"
        i1  == IF hasSign THEN i0 + 1 ELSE i0
    IN IF MatchCI(s, i1, <<"i", "n", "f">>)
       THEN [kind |-> "inf", neg |-> neg, mant |-> 0, e10 |-> 0]
       ELSE IF MatchCI(s, i1, <<"n", "a", "n">>)
       THEN [kind |-> "nan", neg |-> FALSE, mant |-> 0, e10 |-> 0]
       ELSE LET ip == ScanDigits(s, i1, 0, 0)
                hasDot == ip.pos <= Len(s) /\ s[ip.pos] = "."
                fp == IF hasDot THEN ScanDigits(s, ip.pos + 1, ip.val, 0)
                      ELSE [pos |-> ip.pos, val |-> ip.val, cnt |-> 0]
            IN IF ip.cnt + fp.cnt = 0
               THEN [kind |-> "fin", neg |-> FALSE, mant |-> 0, e10 |-> 0]
               ELSE [kind |-> "fin", neg |-> neg, mant |-> fp.val,
                     e10 |-> ScanExp(s, fp.pos) - fp.cnt]

\* mant * 10^e10 is 10^309 or more: strtod returns HUGE_VAL.
Overflows(p) == p.mant > 0 /\ NumDigits(p.mant) - 1 + p.e10 > MaxDecExp

\* The strings whose value is a whole number of 10^-Scale units.
AtofExact(s) ==
    LET p == AtofParts(s)
    IN \/ p.kind # "fin"
       \/ p.mant = 0
       \/ Overflows(p)
       \/ /\ p.e10 + Scale >= 0
          /\ p.e10 + Scale + NumDigits(p.mant) <= 9
       \/ /\ p.e10 + Scale < 0
          /\ 0 - (p.e10 + Scale) <= 9
          /\ p.mant % Pow10(0 - (p.e10 + Scale)) = 0

Atof(s) ==
    LET p == AtofParts(s)
    IN CASE p.kind = "inf" -> Inf(p.neg)
         [] p.kind = "nan" -> NaN
         [] OTHER ->
            IF p.mant = 0 THEN Fin(p.neg, 0)
            ELSE IF Overflows(p) THEN Inf(p.neg)
            ELSE IF p.e10 + Scale >= 0
                 THEN Fin(p.neg, p.mant * Pow10(p.e10 + Scale))
                 ELSE Fin(p.neg, p.mant \div Pow10(0 - (p.e10 + Scale)))

\* ---------------------------------------------------------------------------
\* fgets(input, size, stdin): NULL at end of file, else at most size-1
\* characters, stopping after the first newline.
\* ---------------------------------------------------------------------------

\* Position of the first newline from i on, or the end of the stream
LineEnd(s, i) ==
    IF \E j \in i..Len(s) : s[j] = "\n"
    THEN CHOOSE j \in i..Len(s) :
            s[j] = "\n" /\ \A k \in i..(j - 1) : s[k] # "\n"
    ELSE Len(s)

FgetsIsNull(stream) == stream = <<>>

Fgets(stream, size) == SubSeq(stream, 1, Min(LineEnd(stream, 1), size - 1))

\* ---------------------------------------------------------------------------
\* printf conversion %.2f
\* ---------------------------------------------------------------------------

TwoDigits(k) == <<Digits[(k \div 10) + 1], Digits[(k % 10) + 1]>>

SignChars(neg) == IF neg THEN <<"-">> ELSE <<>>

Hundredths(neg, h) ==
    SignChars(neg) \o IntDigits(h \div 100) \o <<".">> \o TwoDigits(h % 100)

\* Faulty variant: the third and later fractional digits are cut off.
FormatF2_Truncating(v) ==
    IF v.kind = "fin" THEN {Hundredths(v.neg, v.mag \div Pow10(Scale - 2))}
    ELSE {SignChars(v.neg) \o <<"x">>}

\* The strings %.2f can produce for v. The double nearest a decimal that lies
\* exactly half way between two hundredths may lie on either side of it (and
\* C libraries differ on exact ties), so both neighbours are possible there.
FormatF2(v) ==
    CASE v.kind = "nan" -> {<<"n", "a", "n">>, <<"-", "n", "a", "n">>}
      [] v.kind = "inf" -> {SignChars(v.neg) \o <<"i", "n", "f">>}
      [] OTHER ->
         LET D == Pow10(Scale - 2)
             q == v.mag \div D
             r == v.mag % D
         IN IF 2 * r < D THEN {Hundredths(v.neg, q)}
            ELSE IF 2 * r > D THEN {Hundredths(v.neg, q + 1)}
            ELSE {Hundredths(v.neg, q), Hundredths(v.neg, q + 1)}

\* ---------------------------------------------------------------------------
\* current_time_iso8601: strftime "%Y-%m-%dT%H:%M:%SZ" of the UTC clock
\* ---------------------------------------------------------------------------

Pad4(y) == Rep("0", 4 - NumDigits(y)) \o IntDigits(y)

current_time_iso8601(t, bufsz) ==
    LET full == Pad4(t[1]) \o <<"-">> \o TwoDigits(t[2]) \o <<"-">>
                \o TwoDigits(t[3]) \o <<"T">> \o TwoDigits(t[4]) \o <<":">>
                \o TwoDigits(t[5]) \o <<":">> \o TwoDigits(t[6]) \o <<"Z">>
    IN IF Len(full) < bufsz THEN full ELSE <<>>

\* ---------------------------------------------------------------------------
\* snprintf of the Observation: the document is kept as its three inserted
\* fields, its rendered length is the template plus the fields.
\* ---------------------------------------------------------------------------

Document(patient, iso, val) == [patient |-> patient, time |-> iso, value |-> val]

NoDocument == Document(<<>>, <<>>, <<>>)

RenderedLen(doc) == TemplateLen + Len(doc.patient) + Len(doc.time) + Len(doc.value)

\* What snprintf leaves in a buffer of `size` bytes: the first size-1
\* characters of the document, and the length it would have needed.
Snprintf(size, doc) ==
    [n |-> RenderedLen(doc),
     buf |-> [doc |-> doc, len |-> Min(RenderedLen(doc), size - 1)]]

Strlen(buf) == buf.len

\* Faulty variant: the negative return of snprintf is not tested.
PayloadCheckFails_NoSign(k, size) == k >= size

\* n < 0 || n >= (int)sizeof(json)
PayloadCheckFails(k, size) == k < 0 \/ k >= size

\* Faulty variant: 300 counts as success.
IsSuccess_Inclusive(code) == code >= 200 /\ code <= 300

\* http_code >= 200 && http_code < 300
IsSuccess(code) == code >= 200 /\ code < 300

\* Faulty variant: the result of curl_easy_perform is not tested.
TransportFailed_Never(r) == FALSE

\* res != CURLE_OK
TransportFailed(r) == r # CURLE_OK

\* ---------------------------------------------------------------------------
\* libcurl objects
\* ---------------------------------------------------------------------------

CONTENT_TYPE == "Content-Type: application/fhir+json;charset=utf-8"

ACCEPT == "Accept: application/fhir+json"

\* CURLcode values curl_easy_perform can return besides CURLE_OK: could not
\* resolve host, could not connect, timed out, peer certificate, CA file.
TransportErrors == {6, 7, 28, 60, 77}

\* Status codes curl_easy_getinfo can report after CURLE_OK (0: none recorded)
HttpCodes == {0, 100, 199, 200, 201, 204, 299, 300, 301, 400, 404, 500, 503}

NoHandle == [state |-> "none", response_code |-> 0, cleanups |-> 0]

\* curl_slist_append(list, str): NULL (0) when the allocation fails, else the
\* list, created when `list` is NULL. Returns the pointer and the heap.
SlistAppend(heap, list, str, ok) ==
    IF ~ok THEN [ptr |-> 0, heap |-> heap]
    ELSE IF list = 0
    THEN [ptr |-> Len(heap) + 1,
          heap |-> Append(heap, [items |-> <<str>>, frees |-> 0])]
    ELSE [ptr |-> list,
          heap |-> [heap EXCEPT ![list].items = Append(@, str)]]

\* curl_slist_free_all(list): nothing for NULL
SlistFreeAll(heap, list) ==
    IF list = 0 THEN heap ELSE [heap EXCEPT ![list].frees = @ + 1]

\* curl_easy_cleanup(handle)
EasyCleanup(h) == [h EXCEPT !.state = "freed", !.cleanups = @ + 1]

SlistItems(heap, list) == IF list = 0 THEN <<>> ELSE heap[list].items

\* One line written to stdout or stderr
Msg(m, a) == [msg |-> m, arg |-> a]

\* ---------------------------------------------------------------------------
\* Inputs of a run
\* ---------------------------------------------------------------------------

ArgStrings ==
    { <<"3", "6", ".", "5">>, <<"3", "7", ".", "2">>, <<"3", "6", ".", "6">>,
      <<"3", "6", ".", "5", "5", "5">>, <<"3", "6", ".", "5", "5", "4">>,
      <<"3", "6", ".", "5", "5", "6">>, <<"0", ".", "1", "2", "5">>,
      <<"9", "9", ".", "9", "9", "5">>, <<"-", "0", ".", "0", "0", "4">>,
      <<"a", "b", "c">>, <<>>, <<"1", "2", "a", "b", "c">>, <<" ", " ", "7">>,
      <<"-", "1", ".", "5">>, <<"-", "0">>, <<"-", "a", "b", "c">>,
      <<"n", "a", "n">>, <<"I", "N", "F">>, <<"-", "i", "n", "f">>,
      <<"1", "e", "9", "9", "9">>, <<"-", "1", "e", "9", "9", "9">>,
      <<"3", "e", "1">>, <<"4", "e", "-", "1">>, <<".", "5">>,
      <<"3", "6", ".", "5", "e">> }

\* A stdin line of zeros followed by 12.5 that ends k characters past what
\* fgets can store in input[InputBufSize].
LongLine(k) ==
    Rep("0", InputBufSize - 5 + k) \o <<"1", "2", ".", "5", "\n">>

StdinStreams ==
    { <<>>, <<"\n">>, <<"3", "7", ".", "2">>,
      <<"3", "6", ".", "5", "\n", "4", "0", "\n">> }
    \cup { s \o <<"\n">> : s \in ArgStrings }
    \cup { LongLine(k) : k \in 0..Overrun }

\* UTC clock readings: year, month, day, hour, minute, second
Clocks == { <<2025, 1, 2, 3, 4, 5>>, <<1999, 12, 31, 23, 59, 59>> }

\* ---------------------------------------------------------------------------
\* State of one run of main()
\* ---------------------------------------------------------------------------

VARIABLES
    argc, argv1, stdin, clock,      \* the run's environment
    pc,                             \* position in main()
    input, temp_value,              \* lines 43-55
    iso_time, json, n,              \* lines 63-78
    curl, headers, slists, opts,    \* lines 86-102 (slists: the slist heap)
    res, http_code,                 \* lines 96, 118
    out, err, exit_code,            \* stdout, stderr, return value of main
    posts,                          \* requests curl_easy_perform carried out
    calls                           \* library calls made, in order

vars == <<argc, argv1, stdin, clock, pc, input, temp_value, iso_time, json, n,
          curl, headers, slists, opts, res, http_code, out, err, exit_code,
          posts, calls>>

env == <<argc, argv1, stdin, clock>>

NoOpts == [url |-> "", httpheader |-> 0, postfields |-> FALSE,
           postfieldsize |-> 0]

Init ==
    /\ \/ /\ argc = 1
          /\ argv1 = <<>>
          /\ stdin \in {s \in StdinStreams : AtofExact(Fgets(s, InputBufSize))}
       \/ /\ argc \in {2, 3}
          /\ argv1 \in {s \in ArgStrings : AtofExact(s)}
          /\ stdin = <<>>
    /\ clock \in Clocks
    /\ pc = "start"
    /\ input = <<>>
    /\ temp_value = NaN
    /\ iso_time = <<>>
    /\ json = [doc |-> NoDocument, len |-> 0]
    /\ n = 0
    /\ curl = NoHandle
    /\ headers = 0
    /\ slists = <<>>
    /\ opts = NoOpts
    /\ res = Unset
    /\ http_code = 0
    /\ out = <<>>
    /\ err = <<>>
    /\ exit_code = Unset
    /\ posts = <<>>
    /\ calls = <<>>

\* return code;
Return(code) == pc' = "done" /\ exit_code' = code

\* lines 45-46: temp_value = atof(argv[1])
ParseArg ==
    /\ pc = "start" /\ argc >= 2
    /\ temp_value' = Atof(argv1)
    /\ pc' = "validate"
    /\ UNCHANGED <<env, input, iso_time, json, n, curl, headers, slists, opts,
                   res, http_code, out, err, exit_code, posts, calls>>

\* lines 48-53: prompt, fgets returns NULL, "No input", return 1
PromptNoInput ==
    /\ pc = "start" /\ argc < 2
    /\ FgetsIsNull(stdin)
    /\ out' = Append(out, Msg("prompt", 0))
    /\ err' = Append(err, Msg("no_input", 0))
    /\ Return(1)
    /\ UNCHANGED <<env, input, temp_value, iso_time, json, n, curl, headers,
                   slists, opts, res, http_code, posts, calls>>

\* lines 48-54: prompt, fgets stores a line, temp_value = atof(input)
PromptParse ==
    /\ pc = "start" /\ argc < 2
    /\ ~FgetsIsNull(stdin)
    /\ out' = Append(out, Msg("prompt", 0))
    /\ input' = Fgets(stdin, InputBufSize)
    /\ temp_value' = Atof(input')
    /\ pc' = "validate"
    /\ UNCHANGED <<env, iso_time, json, n, curl, headers, slists, opts, res,
                   http_code, err, exit_code, posts, calls>>

\* lines 57-60: !isfinite(temp_value)
RejectNonFinite ==
    /\ pc = "validate"
    /\ ~IsFinite(temp_value)
    /\ err' = Append(err, Msg("invalid_value", 0))
    /\ Return(1)
    /\ UNCHANGED <<env, input, temp_value, iso_time, json, n, curl, headers,
                   slists, opts, res, http_code, out, posts, calls>>

\* lines 63-78: the timestamp and the snprintf of the document. snprintf
\* returns the length the document needs, or a negative value on an output
\* error, and then the buffer holds some part of the document.
BuildPayload ==
    /\ pc = "validate"
    /\ IsFinite(temp_value)
    /\ iso_time' = current_time_iso8601(clock, IsoBufSize)
    /\ \E val \in FormatF2(temp_value) :
         LET doc == Document(PATIENT_ID, iso_time', val)
             r   == Snprintf(JsonBufSize, doc)
         IN \/ /\ n' = r.n
               /\ json' = r.buf
            \/ /\ n' = 0 - 1
               /\ \E k \in {0, TemplateLen} : json' = [doc |-> doc, len |-> k]
    /\ calls' = Append(calls, "snprintf")
    /\ pc' = "check"
    /\ UNCHANGED <<env, input, temp_value, curl, headers, slists, opts, res,
                   http_code, out, err, exit_code, posts>>

\* lines 80-83
RejectPayload ==
    /\ pc = "check"
    /\ PayloadCheckFails(n, JsonBufSize)
    /\ err' = Append(err, Msg("payload_too_long", 0))
    /\ Return(1)
    /\ UNCHANGED <<env, input, temp_value, iso_time, json, n, curl, headers,
                   slists, opts, res, http_code, out, posts, calls>>

\* lines 86-90: curl_easy_init returns NULL
CurlInitFail ==
    /\ pc = "check"
    /\ ~PayloadCheckFails(n, JsonBufSize)
    /\ calls' = Append(calls, "curl_easy_init")
    /\ err' = Append(err, Msg("curl_init_failed", 0))
    /\ Return(1)
    /\ UNCHANGED <<env, input, temp_value, iso_time, json, n, curl, headers,
                   slists, opts, res, http_code, out, posts>>

\* line 86: curl_easy_init returns a handle
CurlInit ==
    /\ pc = "check"
    /\ ~PayloadCheckFails(n, JsonBufSize)
    /\ calls' = Append(calls, "curl_easy_init")
    /\ curl' = [NoHandle EXCEPT !.state = "live"]
    /\ pc' = "hdr1"
    /\ UNCHANGED <<env, input, temp_value, iso_time, json, n, headers, slists,
                   opts, res, http_code, out, err, exit_code, posts>>

\* lines 92-93: headers = NULL; headers = curl_slist_append(headers, ...)
AppendContentType ==
    /\ pc = "hdr1"
    /\ \E ok \in BOOLEAN :
         LET r == SlistAppend(slists, 0, CONTENT_TYPE, ok)
         IN headers' = r.ptr /\ slists' = r.heap
    /\ calls' = Append(calls, "curl_slist_append")
    /\ pc' = "hdr2"
    /\ UNCHANGED <<env, input, temp_value, iso_time, json, n, curl, opts, res,
                   http_code, out, err, exit_code, posts>>

\* line 94: headers = curl_slist_append(headers, ...)
AppendAccept ==
    /\ pc = "hdr2"
    /\ \E ok \in BOOLEAN :
         LET r == SlistAppend(slists, headers, ACCEPT, ok)
         IN headers' = r.ptr /\ slists' = r.heap
    /\ calls' = Append(calls, "curl_slist_append")
    /\ pc' = "setopt"
    /\ UNCHANGED <<env, input, temp_value, iso_time, json, n, curl, opts, res,
                   http_code, out, err, exit_code, posts>>

\* lines 97-107: the options (POSTFIELDS points at json, POSTFIELDSIZE is
\* strlen(json)) and the "Posting Observation" line
SetOptions ==
    /\ pc = "setopt"
    /\ opts' = [url |-> FHIR_SERVER_URL, httpheader |-> headers,
                postfields |-> TRUE, postfieldsize |-> Strlen(json)]
    /\ calls' = Append(calls, "curl_easy_setopt")
    /\ out' = Append(out, Msg("posting", 0))
    /\ pc' = "perform"
    /\ UNCHANGED <<env, input, temp_value, iso_time, json, n, curl, headers,
                   slists, res, http_code, err, exit_code, posts>>

\* The request curl_easy_perform puts on the wire: postfieldsize bytes of the
\* buffer POSTFIELDS points at, with the headers of the HTTPHEADER list.
Request ==
    [url |-> opts.url,
     headers |-> SlistItems(slists, opts.httpheader),
     body |-> [doc |-> json.doc, len |-> opts.postfieldsize],
     size |-> opts.postfieldsize]

\* line 109: res = curl_easy_perform(curl)
Perform ==
    /\ pc = "perform"
    /\ posts' = Append(posts, Request)
    /\ calls' = Append(calls, "curl_easy_perform")
    /\ \/ /\ res' \in TransportErrors
          /\ UNCHANGED curl
       \/ /\ res' = CURLE_OK
          /\ \E c \in HttpCodes : curl' = [curl EXCEPT !.response_code = c]
    /\ pc' = "performed"
    /\ UNCHANGED <<env, input, temp_value, iso_time, json, n, headers, slists,
                   opts, http_code, out, err, exit_code>>

\* Faulty variant: the request is tried again after a transport failure.
TransportFailure_Retry ==
    /\ pc = "performed"
    /\ TransportFailed(res)
    /\ err' = Append(err, Msg("perform_failed", res))
    /\ pc' = "perform"
    /\ UNCHANGED <<env, input, temp_value, iso_time, json, n, curl, headers,
                   slists, opts, res, http_code, out, exit_code, posts, calls>>

\* lines 110-115: the message, both releases, return 1
TransportFailure ==
    /\ pc = "performed"
    /\ TransportFailed(res)
    /\ err' = Append(err, Msg("perform_failed", res))
    /\ slists' = SlistFreeAll(slists, headers)
    /\ curl' = EasyCleanup(curl)
    /\ calls' = calls \o <<"curl_slist_free_all", "curl_easy_cleanup">>
    /\ Return(1)
    /\ UNCHANGED <<env, input, temp_value, iso_time, json, n, headers, opts,
                   res, http_code, out, posts>>

\* lines 118-120: the response code is read from the handle and printed
GetInfo ==
    /\ pc = "performed"
    /\ ~TransportFailed(res)
    /\ http_code' = curl.response_code
    /\ calls' = Append(calls, "curl_easy_getinfo")
    /\ out' = Append(out, Msg("response_code", http_code'))
    /\ pc' = "cleanup"
    /\ UNCHANGED <<env, input, temp_value, iso_time, json, n, curl, headers,
                   slists, opts, res, err, exit_code, posts>>

\* lines 123-124
CleanUp ==
    /\ pc = "cleanup"
    /\ slists' = SlistFreeAll(slists, headers)
    /\ curl' = EasyCleanup(curl)
    /\ calls' = calls \o <<"curl_slist_free_all", "curl_easy_cleanup">>
    /\ pc' = "report"
    /\ UNCHANGED <<env, input, temp_value, iso_time, json, n, headers, opts,
                   res, http_code, out, err, exit_code, posts>>

\* Faulty variant: 5xx codes get a message of their own.
OutcomeMsg_ByClass(code) ==
    IF IsSuccess(code) THEN "success"
    ELSE IF code >= 500 THEN "server_error" ELSE "upload_may_have_failed"

\* The message of lines 126-132 for a status code
OutcomeMsg(code) ==
    IF IsSuccess(code) THEN "success" ELSE "upload_may_have_failed"

\* lines 126-128
ReportSuccess ==
    /\ pc = "report"
    /\ IsSuccess(http_code)
    /\ out' = Append(out, Msg(OutcomeMsg(http_code), 0))
    /\ Return(0)
    /\ UNCHANGED <<env, input, temp_value, iso_time, json, n, curl, headers,
                   slists, opts, res, http_code, err, posts, calls>>

\* Faulty variant: the request is tried again after a non-2xx response.
ReportFailure_Retry ==
    /\ pc = "report"
    /\ ~IsSuccess(http_code)
    /\ out' = Append(out, Msg(OutcomeMsg(http_code), 0))
    /\ pc' = "perform"
    /\ UNCHANGED <<env, input, temp_value, iso_time, json, n, curl, headers,
                   slists, opts, res, http_code, err, exit_code, posts, calls>>

\* lines 129-131
ReportFailure ==
    /\ pc = "report"
    /\ ~IsSuccess(http_code)
    /\ out' = Append(out, Msg(OutcomeMsg(http_code), 0))
    /\ Return(1)
    /\ UNCHANGED <<env, input, temp_value, iso_time, json, n, curl, headers,
                   slists, opts, res, http_code, err, posts, calls>>

\* What runs once curl_easy_perform has returned
AfterPerform ==
    TransportFailure \/ GetInfo \/ CleanUp \/ ReportSuccess \/ ReportFailure

Next ==
    \/ ParseArg
    \/ PromptNoInput
    \/ PromptParse
    \/ RejectNonFinite
    \/ BuildPayload
    \/ RejectPayload
    \/ CurlInitFail
    \/ CurlInit
    \/ AppendContentType
    \/ AppendAccept
    \/ SetOptions
    \/ Perform
    \/ TransportFailure
    \/ GetInfo
    \/ CleanUp
    \/ ReportSuccess
    \/ ReportFailure

Spec == Init /\ [][Next]_vars

\* The statements after the blocking call are straight-line code: once
\* curl_easy_perform has returned, main() runs to its return.
FairSpec == Spec /\ WF_vars(AfterPerform)

\* ---------------------------------------------------------------------------
\* Vocabulary of the properties
\* ---------------------------------------------------------------------------

HasMsg(stream, m) == \E i \in DOMAIN stream : stream[i].msg = m

CountMsg(stream, m) == Cardinality({i \in DOMAIN stream : stream[i].msg = m})

Called(f) == \E i \in DOMAIN calls : calls[i] = f

CountCalls(f) == Cardinality({i \in DOMAIN calls : calls[i] = f})

\* Position of the only call of f
CallAt(f) == CHOOSE i \in DOMAIN calls : calls[i] = f

InputObtained == argc >= 2 \/ stdin # <<>>

\* The whole first line of stdin, however long it is
FirstLine(stream) == SubSeq(stream, 1, LineEnd(stream, 1))

\* The string the user supplied
SuppliedInput == IF argc >= 2 THEN argv1 ELSE FirstLine(stdin)

\* The string starts (after white space and sign) with nothing strtod reads
NoNumericPrefix(s) ==
    LET i0 == SkipWs(s, 1)
        i1 == IF i0 <= Len(s) /\ s[i0] \in {"+", "-"} THEN i0 + 1 ELSE i0
    IN /\ ~MatchCI(s, i1, <<"i", "n", "f">>)
       /\ ~MatchCI(s, i1, <<"n", "a", "n">>)
       /\ ~(i1 <= Len(s) /\ IsDigit(s[i1]))
       /\ ~(i1 + 1 <= Len(s) /\ s[i1] = "." /\ IsDigit(s[i1 + 1]))

Is2xx(c) == 200 <= c /\ c < 300

EarlyExitMsgs ==
    {"no_input", "invalid_value", "payload_too_long", "curl_init_failed"}

\* A rendered number: optional "-", digits, ".", exactly two digits
WellFormed2(val) ==
    LET b == IF val # <<>> /\ val[1] = "-" THEN 2 ELSE 1
        k == Len(val)
    IN /\ k >= b + 3
       /\ val[k - 2] = "."
       /\ \A i \in (b..k) \ {k - 2} : IsDigit(val[i])

\* The number of hundredths a well-formed rendering denotes
HundredthsOf(val) ==
    LET b == IF val[1] = "-" THEN 2 ELSE 1
        k == Len(val)
    IN DigitsValue(val, b, k - 3, 0) * 100 + DigitsValue(val, k - 1, k, 0)

\* ---------------------------------------------------------------------------
\* Properties
\* ---------------------------------------------------------------------------

\* C1: a run that has ended has exit code 0 or 1, and 0 exactly when
\* curl_easy_perform returned CURLE_OK and the response's status code c
\* satisfies 200 <= c < 300; every other ended run has exit code 1.
C1_ExitZeroIff2xx ==
    pc = "done" =>
        /\ exit_code \in {0, 1}
        /\ exit_code = 0 <=>
              (posts # <<>> /\ res = CURLE_OK /\ Is2xx(curl.response_code))

C1_Witness ==
    pc = "done" /\ exit_code = 0 /\ res = CURLE_OK /\ curl.response_code = 201

\* C2: while no input has been obtained or the parsed value is not finite, no
\* payload is built, the HTTP client is not initialised and no request is
\* made, and such a run ends with exit code 1; a request is made only with
\* an input obtained and a finite parsed value.
C2_NoNetworkWithoutFiniteInput ==
    /\ (~InputObtained \/ temp_value.kind # "fin") =>
          /\ calls = <<>> /\ posts = <<>> /\ curl.state = "none"
          /\ pc \in {"start", "validate", "done"}
          /\ pc = "done" => exit_code = 1
    /\ posts # <<>> => (InputObtained /\ temp_value.kind = "fin")

C2_Witness ==
    /\ pc = "done" /\ exit_code = 1 /\ temp_value.kind = "inf"
    /\ HasMsg(err, "invalid_value")

\* C3 as stated: every run that has ended built exactly one payload and
\* issued exactly one POST.
C3_ExactlyOnePerRun ==
    pc = "done" => (CountCalls("snprintf") = 1 /\ Len(posts) = 1)

\* C3 amended: a run builds at most one payload and issues at most one POST;
\* a run ended by "No input" or "Invalid temperature value" builds none and
\* sends none, one ended by the payload check or by the failure of
\* curl_easy_init sends none, and every other ended run has built exactly one
\* and sent exactly one.
C3_AtMostOnePerRun ==
    /\ CountCalls("snprintf") <= 1
    /\ Len(posts) <= 1
    /\ pc = "done" =>
          LET early == \E i \in DOMAIN err : err[i].msg \in EarlyExitMsgs
          IN /\ (HasMsg(err, "no_input") \/ HasMsg(err, "invalid_value"))
                   => CountCalls("snprintf") = 0
             /\ early => Len(posts) = 0
             /\ ~early => (CountCalls("snprintf") = 1 /\ Len(posts) = 1)

C3_Witness ==
    /\ pc = "done" /\ CountCalls("snprintf") = 1 /\ Len(posts) = 1
    /\ res \in TransportErrors

\* C4: a run issues at most one request; once a request has been issued (a
\* transport failure and a non-2xx response included) no second one follows,
\* and the run ends.
C4_SingleAttempt ==
    /\ [](Len(posts) <= 1)
    /\ [][posts # <<>> => posts' = posts]_vars
    /\ (posts # <<>>) ~> (pc = "done" /\ Len(posts) = 1)

C4_Witness ==
    /\ pc = "done" /\ Len(posts) = 1 /\ exit_code = 1
    /\ res = CURLE_OK /\ curl.response_code = 503

\* C5: when curl_easy_perform returns anything but CURLE_OK, the run ends with
\* exit code 1, stderr carries the failure with its reason, and stdout has no
\* status code line, no success message and no generic failure message.
C5_TransportFailureReport ==
    (pc = "done" /\ posts # <<>> /\ res # CURLE_OK) =>
        /\ exit_code = 1
        /\ err = <<Msg("perform_failed", res)>>
        /\ \A i \in DOMAIN out :
              out[i].msg \notin
                  {"response_code", "success", "upload_may_have_failed"}

C5_Witness ==
    pc = "done" /\ res = 6 /\ err = <<Msg("perform_failed", 6)>>

\* C6: after a response the status code line is printed first and exactly one
\* outcome message after it: the success message for 200 <= c < 300 and the
\* one generic failure message for every other c, with exit code 0 and 1
\* respectively, so all codes outside [200,300) are reported alike.
C6_StatusThenOneOutcome ==
    LET c == curl.response_code
        k == Len(out)
        outcomes == {i \in DOMAIN out : out[i].msg # "prompt"
                                        /\ out[i].msg # "posting"
                                        /\ out[i].msg # "response_code"}
    IN /\ (posts # <<>> /\ res = CURLE_OK /\ pc \in {"cleanup", "report"}) =>
             (out[k] = Msg("response_code", c) /\ outcomes = {})
       /\ (posts # <<>> /\ res = CURLE_OK /\ pc = "done") =>
             /\ k >= 2
             /\ out[k - 1] = Msg("response_code", c)
             /\ CountMsg(out, "response_code") = 1
             /\ outcomes = {k}
             /\ out[k] = Msg(IF Is2xx(c) THEN "success"
                             ELSE "upload_may_have_failed", 0)
             /\ exit_code = IF Is2xx(c) THEN 0 ELSE 1

C6_Witness ==
    /\ pc = "done" /\ res = CURLE_OK /\ curl.response_code = 500
    /\ out[Len(out)] = Msg("upload_may_have_failed", 0)
    /\ exit_code = 1

\* C7: when snprintf reports an error or a length of 2048 or more, the run
\* ends with exit code 1 without curl_easy_init and without a POST; every POST
\* carries the whole rendered document, with a declared size equal to its
\* length.
C7_NoSilentTruncation ==
    /\ (Called("snprintf") /\ (n < 0 \/ n >= 2048)) =>
          /\ ~Called("curl_easy_init")
          /\ posts = <<>>
          /\ pc \in {"check", "done"}
          /\ pc = "done" => exit_code = 1
    /\ \A i \in DOMAIN posts :
          /\ posts[i].body.doc = Document(PATIENT_ID, iso_time, json.doc.value)
          /\ posts[i].body.len = RenderedLen(posts[i].body.doc)
          /\ posts[i].size = RenderedLen(posts[i].body.doc)

C7_Witness ==
    /\ pc = "done" /\ Called("snprintf") /\ n < 0 /\ exit_code = 1
    /\ HasMsg(err, "payload_too_long")

\* C8 as stated: the parsed value is the value of the leading numeric prefix
\* of the string supplied (argv[1], or the line on stdin), and a string with
\* no numeric prefix parses to 0 and is not rejected as an invalid value.
C8_ParsesSuppliedString ==
    (pc # "start" /\ InputObtained) =>
        /\ temp_value = Atof(SuppliedInput)
        /\ NoNumericPrefix(SuppliedInput) =>
              (temp_value = Fin(FALSE, 0) /\ ~HasMsg(err, "invalid_value"))

\* C8 amended: the string parsed is argv[1] or the first 63 characters of the
\* stdin line; the parsed value is the value of its leading numeric prefix,
\* characters after it changing nothing; a string with no numeric prefix
\* parses to +0, is not rejected as invalid, gives a payload with value 0.00,
\* and the POST is issued unless formatting or curl_easy_init fails.
C8_ParsesStoredString ==
    LET line == FirstLine(stdin)
        s == IF argc >= 2 THEN argv1
             ELSE SubSeq(line, 1, Min(Len(line), 63))
        zero == <<"0", ".", "0", "0">>
    IN (pc # "start" /\ InputObtained) =>
          /\ argc < 2 => input = s
          /\ temp_value = Atof(s)
          /\ temp_value = Atof(s \o <<"z">>)
          /\ NoNumericPrefix(s) =>
                /\ temp_value = Fin(FALSE, 0)
                /\ ~HasMsg(err, "invalid_value")
                /\ pc # "validate" => Called("snprintf")
                /\ Called("snprintf") => json.doc.value = zero
                /\ \A i \in DOMAIN posts : posts[i].body.doc.value = zero
                /\ (pc = "done" /\ ~HasMsg(err, "payload_too_long")
                                /\ ~HasMsg(err, "curl_init_failed"))
                      => Len(posts) = 1

C8_Witness ==
    /\ argc < 2 /\ input = <<"a", "b", "c", "\n">>
    /\ temp_value = Fin(FALSE, 0)
    /\ Len(posts) = 1
    /\ posts[1].body.doc.value = <<"0", ".", "0", "0">>

\* C9: the value in a built payload is the temperature written with exactly
\* two digits after the point, the nearest hundredth of it (the temperature
\* itself when it has at most two fractional digits), with its sign.
C9_TwoDecimals ==
    (Called("snprintf") /\ n >= 0) =>
        LET val == json.doc.value
            D   == Pow10(Scale - 2)
            h   == HundredthsOf(val)
            d   == h * D - temp_value.mag
        IN /\ WellFormed2(val)
           /\ (val[1] = "-") <=> temp_value.neg
           /\ 2 * d <= D /\ 2 * (0 - d) <= D
           /\ temp_value.mag % D = 0 => d = 0
           /\ temp_value = Fin(FALSE, 365 * Pow10(Scale - 1))
                 => val = <<"3", "6", ".", "5", "0">>

C9_Witness ==
    /\ posts # <<>>
    /\ temp_value = Fin(FALSE, 36556 * Pow10(Scale - 3))
    /\ json.doc.value = <<"3", "6", ".", "5", "6">>

\* C10 as stated: a run that ends after the request was performed has released
\* the curl handle exactly once and every header list exactly once, read the
\* response code before releasing the handle and made no call on the handle
\* after releasing it; a run ended by "No input", "Invalid temperature value"
\* or the payload check has acquired no handle and no header list.
C10_ReleasedExactlyOnce ==
    pc = "done" =>
        /\ Called("curl_easy_perform") =>
              /\ curl.state = "freed" /\ curl.cleanups = 1
              /\ \A l \in DOMAIN slists : slists[l].frees = 1
              /\ CountCalls("curl_easy_cleanup") = 1
              /\ \A i \in DOMAIN calls :
                    calls[i] \in {"curl_easy_getinfo", "curl_easy_perform",
                                  "curl_easy_setopt", "curl_slist_free_all"}
                       => i < CallAt("curl_easy_cleanup")
        /\ (\E i \in DOMAIN err : err[i].msg \in
                {"no_input", "invalid_value", "payload_too_long"}) =>
              (curl.state = "none" /\ slists = <<>>)

====
